---- MODULE Spec2Model ----
(***************************************************************************)
(* A model of src/core/scriptLoader.ts (namespace AMDLoader): the          *)
(* deduplicating OnlyOnceScriptLoader and the three loading strategies it  *)
(* can wrap (BrowserScriptLoader, WorkerScriptLoader, NodeScriptLoader).   *)
(* Each component has its own specification; the variables of the other    *)
(* components stay at their initial values. The exported scriptLoader and  *)
(* the repeated loads of one cached file have specifications of their own  *)
(* over the variables of the decorator and of the NodeScriptLoader.        *)
(***************************************************************************)
EXTENDS Integers, Sequences, FiniteSets, TLC

VARIABLES
    \* OnlyOnceScriptLoader
    callbackMap,    \* this.callbackMap: pending locator -> sequence of IScriptCallbacks
    actualLoads,    \* locator -> number of this.actualScriptLoader.load invocations
    outstanding,    \* locator -> number of underlying loads that have not called back
    completed,      \* locator -> outcomes of the underlying loads that called back
                    \* (for scriptLoader: the runs of the completion handlers)
    registered,     \* the load calls in call order: waiter w is registered[w]
    invoked,        \* the caller callbacks in the order they were invoked
    \* WorkerScriptLoader
    workerLoads,    \* the load calls made, each with the calls it made and what it threw
    \* BrowserScriptLoader
    scripts,        \* the script elements created, with their listeners and events
    \* NodeScriptLoader._runSoon
    runSoonArgs,    \* minTimeout and the value Math.random() returns
    runSoonTimer,   \* the timeout handed to setTimeout, none before the call
    \* NodeScriptLoader
    nodeOpts,       \* moduleManager.getConfig().getOptionsLiteral()
    nodeLoads,      \* the load calls made, each with its position, its trace and its timer
    cacheFiles,     \* the files of the cache directory: path -> blob, or NoFile
    defineQueue,    \* the definitions given to moduleManager.enqueueDefineAnonymousModule
    \* NodeScriptLoader.load: wrapping the text of a file
    fileData,       \* the text this._fs.readFile hands to its callback
    contents,       \* the wrapped text, none before the callback ran
    \* scriptLoader
    actualScriptLoader  \* the strategy the exported OnlyOnceScriptLoader wraps

onceVars == <<callbackMap, actualLoads, outstanding, completed, registered, invoked>>

workerVars == <<workerLoads>>

browserVars == <<scripts>>

runSoonVars == <<runSoonArgs, runSoonTimer>>

nodeVars == <<nodeOpts, nodeLoads, cacheFiles, defineQueue>>

wrapVars == <<fileData, contents>>

vars == <<onceVars, workerVars, browserVars, runSoonVars, nodeVars, wrapVars, actualScriptLoader>>

----------------------------------------------------------------------------
(* Bounds and input sets                                                    *)

MaxCalls == 4

MaxWorkerLoads == 2

MaxScripts == 2

MaxEvents == 3

MaxMinTimeout == 8

MaxTimeoutDen == 2

\* Math.random() returns one of 0/RandomDen .. (RandomDen - 1)/RandomDen
RandomDen == 4

MaxNodeLoads == 2

MaxWriteDelay == 1

Locators == {"a.js", "b.js"}

Errors == {"E1", "E2"}

NoError == "none"

----------------------------------------------------------------------------
(* OnlyOnceScriptLoader                                                     *)

\* this.callbackMap.hasOwnProperty(scriptSrc)
hasOwnProperty_never(map, scriptSrc) == FALSE

hasOwnProperty(map, scriptSrc) == scriptSrc \in DOMAIN map

\* delete this.callbackMap[scriptSrc]
deleteEntry(map, scriptSrc) == [k \in (DOMAIN map) \ {scriptSrc} |-> map[k]]

\* this.callbackMap[scriptSrc] = [scriptCallbacks]
setEntry(map, scriptSrc, list) ==
    [k \in (DOMAIN map) \cup {scriptSrc} |-> IF k = scriptSrc THEN list ELSE map[k]]

\* The calls a fan-out loop makes, in loop order.
callbackCalls(scriptCallbacks) ==
    [i \in 1..Len(scriptCallbacks) |->
        [fn |-> "callback", of |-> scriptCallbacks[i].callback, err |-> NoError]]

errorbackCalls(scriptCallbacks, err) ==
    [i \in 1..Len(scriptCallbacks) |->
        [fn |-> "errorback", of |-> scriptCallbacks[i].errorback, err |-> err]]

\* A fan-out loop that stops one short of the end of the list.
triggerCallback_skipsLast(map, log, scriptSrc) ==
    [map |-> deleteEntry(map, scriptSrc),
     log |-> log \o SubSeq(callbackCalls(map[scriptSrc]), 1, Len(map[scriptSrc]) - 1)]

triggerCallback(map, log, scriptSrc) ==
    LET scriptCallbacks == map[scriptSrc]
    IN  [map |-> deleteEntry(map, scriptSrc),
         log |-> log \o callbackCalls(scriptCallbacks)]

\* A failure handler that leaves the pending entry in place.
triggerErrorback_keepsEntry(map, log, scriptSrc, err) ==
    [map |-> map,
     log |-> log \o errorbackCalls(map[scriptSrc], err)]

triggerErrorback(map, log, scriptSrc, err) ==
    LET scriptCallbacks == map[scriptSrc]
    IN  [map |-> deleteEntry(map, scriptSrc),
         log |-> log \o errorbackCalls(scriptCallbacks, err)]

\* How the wrapped IScriptLoader answers a load: it calls back later
\* (BrowserScriptLoader, the file form of NodeScriptLoader) or within the load
\* call (WorkerScriptLoader, the node| form of NodeScriptLoader).
ActualModes == {"async", "syncSuccess", "syncFailure"}

Success == [ok |-> TRUE, err |-> NoError]

Failure(err) == [ok |-> FALSE, err |-> err]

OnceInit ==
    /\ callbackMap = <<>>
    /\ actualLoads = [l \in Locators |-> 0]
    /\ outstanding = [l \in Locators |-> 0]
    /\ completed = [l \in Locators |-> <<>>]
    /\ registered = <<>>
    /\ invoked = <<>>

\* No strategy has been chosen for the exported scriptLoader.
NoLoader == "none"

LoaderIdle == actualScriptLoader = NoLoader

\* OnlyOnceScriptLoader.load(moduleManager, scriptSrc, callback, errorback)
OnceLoad(scriptSrc, mode, err) ==
    LET w == Len(registered) + 1
        scriptCallbacks == [callback |-> w, errorback |-> w]
        epoch == Len(completed[scriptSrc])
    IN  /\ Len(registered) < MaxCalls
        /\ registered' = Append(registered, [src |-> scriptSrc, epoch |-> epoch])
        /\ UNCHANGED <<workerVars, browserVars, runSoonVars, nodeVars, wrapVars,
                       actualScriptLoader>>
        /\ IF hasOwnProperty(callbackMap, scriptSrc)
           THEN /\ callbackMap' =
                       [callbackMap EXCEPT ![scriptSrc] = Append(@, scriptCallbacks)]
                /\ UNCHANGED <<actualLoads, outstanding, completed, invoked>>
           ELSE LET map1 == setEntry(callbackMap, scriptSrc, <<scriptCallbacks>>)
                    ok == triggerCallback(map1, invoked, scriptSrc)
                    ko == triggerErrorback(map1, invoked, scriptSrc, err)
                IN  /\ actualLoads' = [actualLoads EXCEPT ![scriptSrc] = @ + 1]
                    /\ CASE mode = "async" ->
                              /\ callbackMap' = map1
                              /\ outstanding' = [outstanding EXCEPT ![scriptSrc] = @ + 1]
                              /\ UNCHANGED <<completed, invoked>>
                         [] mode = "syncSuccess" ->
                              /\ callbackMap' = ok.map
                              /\ invoked' = ok.log
                              /\ completed' = [completed EXCEPT ![scriptSrc] = Append(@, Success)]
                              /\ UNCHANGED outstanding
                         [] mode = "syncFailure" ->
                              /\ callbackMap' = ko.map
                              /\ invoked' = ko.log
                              /\ completed' = [completed EXCEPT ![scriptSrc] = Append(@, Failure(err))]
                              /\ UNCHANGED outstanding

\* The wrapped loader calls the success handler it was given:
\* () => this.triggerCallback(scriptSrc)
ActualSuccess(scriptSrc) ==
    LET r == triggerCallback(callbackMap, invoked, scriptSrc)
    IN  /\ outstanding[scriptSrc] > 0
        /\ outstanding' = [outstanding EXCEPT ![scriptSrc] = @ - 1]
        /\ completed' = [completed EXCEPT ![scriptSrc] = Append(@, Success)]
        /\ callbackMap' = r.map
        /\ invoked' = r.log
        /\ UNCHANGED <<actualLoads, registered, workerVars, browserVars, runSoonVars,
                       nodeVars, wrapVars, actualScriptLoader>>

\* The wrapped loader calls the failure handler it was given:
\* (err) => this.triggerErrorback(scriptSrc, err)
ActualFailure(scriptSrc, err) ==
    LET r == triggerErrorback(callbackMap, invoked, scriptSrc, err)
    IN  /\ outstanding[scriptSrc] > 0
        /\ outstanding' = [outstanding EXCEPT ![scriptSrc] = @ - 1]
        /\ completed' = [completed EXCEPT ![scriptSrc] = Append(@, Failure(err))]
        /\ callbackMap' = r.map
        /\ invoked' = r.log
        /\ UNCHANGED <<actualLoads, registered, workerVars, browserVars, runSoonVars,
                       nodeVars, wrapVars, actualScriptLoader>>

----------------------------------------------------------------------------
(* WorkerScriptLoader                                                       *)

\* What importScripts, callback and errorback do when load calls them:
\* return ("none") or throw an error.
Behaviours == {NoError} \cup Errors

\* The calls one WorkerScriptLoader.load makes, in order, and the error that
\* leaves load, if any: the try block holds both importScripts and callback.
workerLoad(scriptSrc, imported, callbackDoes, errorbackDoes) ==
    LET caught == IF imported # NoError THEN imported ELSE callbackDoes
        tried  == IF imported # NoError
                  THEN <<>>
                  ELSE <<[fn |-> "callback", err |-> NoError]>>
    IN  IF caught = NoError
        THEN [src |-> scriptSrc, imported |-> imported,
              calls |-> tried, thrown |-> NoError]
        ELSE [src |-> scriptSrc, imported |-> imported,
              calls |-> tried \o <<[fn |-> "errorback", err |-> caught]>>,
              thrown |-> errorbackDoes]

WorkerInit == workerLoads = <<>>

\* WorkerScriptLoader.load(moduleManager, scriptSrc, callback, errorback)
WorkerLoad(scriptSrc, imported, callbackDoes, errorbackDoes) ==
    /\ Len(workerLoads) < MaxWorkerLoads
    /\ workerLoads' =
          Append(workerLoads, workerLoad(scriptSrc, imported, callbackDoes, errorbackDoes))
    /\ UNCHANGED <<onceVars, browserVars, runSoonVars, nodeVars, wrapVars,
                   actualScriptLoader>>

NextWorker ==
    \E scriptSrc \in Locators, imported \in Behaviours,
       callbackDoes \in Behaviours, errorbackDoes \in Behaviours :
          WorkerLoad(scriptSrc, imported, callbackDoes, errorbackDoes)


----------------------------------------------------------------------------
(* BrowserScriptLoader                                                      *)

\* unbind that forgets the error listener.
unbind_onlyLoad(script) == [script EXCEPT !.loadEventListener = FALSE]

\* script.removeEventListener('load', ...); script.removeEventListener('error', ...)
unbind(script) ==
    [script EXCEPT !.loadEventListener = FALSE, !.errorEventListener = FALSE]

\* loadEventListener = (e) => { unbind(); callback(); }
loadEventListener(script) ==
    [unbind(script) EXCEPT !.calls = Append(@, [fn |-> "callback", err |-> NoError])]

\* errorEventListener = (e) => { unbind(); errorback(e); }
errorEventListener(script, e) ==
    [unbind(script) EXCEPT !.calls = Append(@, [fn |-> "errorback", err |-> e])]

\* attachListeners(script, callback, errorback)
attachListeners(script) ==
    [script EXCEPT !.loadEventListener = TRUE, !.errorEventListener = TRUE]

\* The events the environment delivers to a script element; an element
\* remembers how many it got, the first and the last.
NoEvent == [type |-> "none", e |-> NoError]

deliver(script, event) ==
    [script EXCEPT !.delivered = @ + 1,
                   !.first = IF script.delivered = 0 THEN event ELSE @,
                   !.last = event]

\* document.createElement('script') with the attributes load sets before
\* it attaches the listeners
createElement ==
    [async |-> "async", type |-> "text/javascript", src |-> NoError, inHead |-> FALSE,
     loadEventListener |-> FALSE, errorEventListener |-> FALSE,
     delivered |-> 0, first |-> NoEvent, last |-> NoEvent, calls |-> <<>>]

BrowserInit == scripts = <<>>

\* BrowserScriptLoader.load(moduleManager, scriptSrc, callback, errorback)
BrowserLoad(scriptSrc) ==
    /\ Len(scripts) < MaxScripts
    /\ scripts' = Append(scripts,
          [attachListeners(createElement) EXCEPT !.src = scriptSrc, !.inHead = TRUE])
    /\ UNCHANGED <<onceVars, workerVars, runSoonVars, nodeVars, wrapVars,
                   actualScriptLoader>>

\* The environment delivers a 'load' event to a script element.
DispatchLoad(s) ==
    /\ s \in 1..Len(scripts)
    /\ scripts[s].delivered < MaxEvents
    /\ LET script == deliver(scripts[s], [type |-> "load", e |-> NoError])
       IN  scripts' = [scripts EXCEPT ![s] =
                          IF script.loadEventListener
                          THEN loadEventListener(script)
                          ELSE script]
    /\ UNCHANGED <<onceVars, workerVars, runSoonVars, nodeVars, wrapVars,
                   actualScriptLoader>>

\* The environment delivers an 'error' event to a script element.
DispatchError(s, e) ==
    /\ s \in 1..Len(scripts)
    /\ scripts[s].delivered < MaxEvents
    /\ LET script == deliver(scripts[s], [type |-> "error", e |-> e])
       IN  scripts' = [scripts EXCEPT ![s] =
                          IF script.errorEventListener
                          THEN errorEventListener(script, e)
                          ELSE script]
    /\ UNCHANGED <<onceVars, workerVars, runSoonVars, nodeVars, wrapVars,
                   actualScriptLoader>>

NextBrowser ==
    \/ \E scriptSrc \in Locators : BrowserLoad(scriptSrc)
    \/ \E s \in 1..MaxScripts : DispatchLoad(s)
    \/ \E s \in 1..MaxScripts, e \in Errors : DispatchError(s, e)


----------------------------------------------------------------------------
(* NodeScriptLoader._runSoon                                                *)

\* Math.ceil(n / d) for d > 0
Ceil(n, d) == (n + d - 1) \div d

\* A _runSoon that forgets to add the minimum.
runSoonTimeout_jitterOnly(minTimeout, rnd) ==
    minTimeout.den * Ceil(rnd * minTimeout.num, RandomDen * minTimeout.den)

\* timeout = minTimeout + Math.ceil(Math.random() * minTimeout), where
\* minTimeout is the fraction num/den and Math.random() returned rnd/RandomDen;
\* the result is the timeout multiplied by den, which is an integer.
runSoonTimeout(minTimeout, rnd) ==
    minTimeout.num
        + minTimeout.den * Ceil(rnd * minTimeout.num, RandomDen * minTimeout.den)

NoTimer == -1

RunSoonIdle ==
    /\ runSoonArgs = [minTimeout |-> [num |-> 1, den |-> 1], rnd |-> 0]
    /\ runSoonTimer = NoTimer

RunSoonInit ==
    /\ runSoonArgs \in [minTimeout : [num : 1..MaxMinTimeout, den : 1..MaxTimeoutDen],
                        rnd : 0..(RandomDen - 1)]
    /\ runSoonTimer = NoTimer

\* NodeScriptLoader._runSoon(callback, minTimeout)
RunSoon ==
    /\ runSoonTimer = NoTimer
    /\ runSoonTimer' = runSoonTimeout(runSoonArgs.minTimeout, runSoonArgs.rnd)
    /\ UNCHANGED <<runSoonArgs, onceVars, workerVars, browserVars, nodeVars,
                   wrapVars, actualScriptLoader>>

NextRunSoon == RunSoon


----------------------------------------------------------------------------
(* NodeScriptLoader: strings and paths                                      *)

\* Strings the loader takes apart are sequences of characters.
FileScheme == <<"f", "i", "l", "e", ":", "/", "/">>

NodePrefix == <<"n", "o", "d", "e", "|">>

ModuleJs == <<"/", "a", "/", "m", ".", "j", "s">>

ModuleNoExt == <<"/", "a", "/", "m">>

NativeModule == <<"f", "s">>

CacheDir == <<"/", "c">>

NoDir == <<>>

\* The locators given to NodeScriptLoader.load
NodeLocators ==
    {FileScheme \o ModuleJs, ModuleNoExt, NodePrefix \o NativeModule}

startsWith(str, prefix) ==
    /\ Len(str) >= Len(prefix)
    /\ SubSeq(str, 1, Len(prefix)) = prefix

endsWith(str, suffix) ==
    /\ Len(str) >= Len(suffix)
    /\ SubSeq(str, Len(str) - Len(suffix) + 1, Len(str)) = suffix

\* /^node\|/.test(scriptSrc)
isNodeForm(scriptSrc) == startsWith(scriptSrc, NodePrefix)

\* A split that leaves the separator at the head of the piece it starts.
split_keepsSeparator(str, sep) ==
    LET at == {i \in 1..Len(str) : str[i] = sep}
    IN  IF at = {}
        THEN <<str>>
        ELSE LET i == CHOOSE k \in at : \A j \in at : k <= j
             IN  <<SubSeq(str, 1, i - 1), SubSeq(str, i, Len(str))>>

\* scriptSrc.split('|')
RECURSIVE split(_, _)
split(str, sep) ==
    LET at == {i \in 1..Len(str) : str[i] = sep}
    IN  IF at = {}
        THEN <<str>>
        ELSE LET i == CHOOSE k \in at : \A j \in at : k <= j
             IN  <<SubSeq(str, 1, i - 1)>> \o split(SubSeq(str, i + 1, Len(str)), sep)

\* Utilities.fileUriToFilePath(scriptSrc): a file:// URI loses its scheme
fileUriToFilePath(uri) ==
    IF startsWith(uri, FileScheme)
    THEN SubSeq(uri, Len(FileScheme) + 1, Len(uri))
    ELSE uri

\* this._crypto.createHash('md5').update(filename, 'utf8').digest('hex'),
\* tabulated for the file names of the model; a digest is one token of a path
md5hex(filename) ==
    CASE filename = ModuleJs    -> "57c5d4800c0a35c35fb9d5d44789238b"
      [] filename = ModuleNoExt -> "e6f4e20d8a3978903ce77257434d0c57"

\* this._path.basename(filename): what follows the last slash, trailing
\* slashes dropped
RECURSIVE basename(_)
basename(filename) ==
    IF Len(filename) > 1 /\ filename[Len(filename)] = "/"
    THEN basename(SubSeq(filename, 1, Len(filename) - 1))
    ELSE LET at == {i \in 1..Len(filename) : filename[i] = "/"}
         IN  IF at = {}
             THEN filename
             ELSE SubSeq(filename, (CHOOSE k \in at : \A j \in at : k >= j) + 1,
                         Len(filename))

\* .replace(/\.js$/, '')
replaceJsSuffix(name) ==
    IF endsWith(name, <<".", "j", "s">>)
    THEN SubSeq(name, 1, Len(name) - 3)
    ELSE name

\* this._path.join(baseDir, name) for a name that holds no slash
join(baseDir, name) ==
    IF endsWith(baseDir, <<"/">>)
    THEN baseDir \o name
    ELSE baseDir \o <<"/">> \o name

\* A cache path that keeps the .js of the base name.
getCachedDataPath_keepsJs(baseDir, filename) ==
    join(baseDir, <<md5hex(filename), "-">> \o basename(filename)
                      \o <<".", "c", "o", "d", "e">>)

\* NodeScriptLoader._getCachedDataPath(baseDir, filename)
getCachedDataPath(baseDir, filename) ==
    LET hash == md5hex(filename)
        base == replaceJsSuffix(basename(filename))
    IN  join(baseDir, <<hash, "-">> \o base \o <<".", "c", "o", "d", "e">>)

----------------------------------------------------------------------------
(* NodeScriptLoader: the vm, the cache files and the load handlers          *)

\* What nodeRequire, the file system and the vm do when the loader calls
\* them: return ("none") or fail with an error.
NodeBehaviours == {NoError, "E1"}

\* A cached-data blob records the source it was compiled from and the load
\* that produced it (0: it was in the directory from the start).
NoFile == [for |-> <<>>, by |-> -1]

Undefined == [for |-> <<>>, by |-> -2]

StaleBlob == [for |-> <<"s", "t", "a", "l", "e">>, by |-> 0]

ModuleFiles == {fileUriToFilePath(l) : l \in {k \in NodeLocators : ~isNodeForm(k)}}

CachePaths == {getCachedDataPath(CacheDir, f) : f \in ModuleFiles}

\* An entry of a load's trace: a call the load made or an event of its timer.
Ev(ev, code, path, err) ==
    [ev |-> ev, code |-> code, path |-> path, err |-> err]

\* A timer of _runSoon: what it will do, and the part of the timeout given to
\* setTimeout that has not elapsed yet
NoTimerSet ==
    [state |-> "none", op |-> "none", path |-> <<>>, data |-> Undefined, remaining |-> 0]

NoScript == [cachedDataRejected |-> FALSE, cachedDataProduced |-> FALSE, cachedData |-> Undefined]

NoOptions == [produceCachedData |-> FALSE, cachedData |-> Undefined]

\* new this._vm.Script(contents, options): the flags and the blob of the
\* compiled unit. A supplied blob is rejected unless it was compiled from this
\* source; a blob is produced only on request, and `produced` says whether
\* the engine managed to.
vmScript(scriptSrc, options, produced, id) ==
    [cachedDataRejected |-> options.cachedData # Undefined /\ options.cachedData.for # scriptSrc,
     cachedDataProduced |-> options.produceCachedData /\ produced,
     cachedData |-> IF options.produceCachedData /\ produced
                    THEN [for |-> scriptSrc, by |-> id]
                    ELSE Undefined]

\* NodeScriptLoader._loadAndEvalScript: the recorder events and the compiled
\* unit; evalDoes is the error the compilation or the run throws, if any.
loadAndEvalScript(scriptSrc, options, evalDoes, produced, id) ==
    LET begin == Ev("record", "NodeBeginEvaluatingScript", scriptSrc, NoError)
        end   == Ev("record", "NodeEndEvaluatingScript", scriptSrc, NoError)
    IN  IF evalDoes = NoError
        THEN [trace |-> <<begin, end>>, thrown |-> NoError,
              script |-> vmScript(scriptSrc, options, produced, id)]
        ELSE [trace |-> <<begin>>, thrown |-> evalDoes, script |-> NoScript]

\* Options that never ask for a blob.
scriptOptions_neverProduce(data) == [produceCachedData |-> FALSE, cachedData |-> data]

\* scriptOptions = { filename, produceCachedData: typeof data === 'undefined', cachedData: data }
scriptOptions(data) == [produceCachedData |-> data = Undefined, cachedData |-> data]

\* An aftermath that reports a rejection and leaves the stale file in place.
cachedCodeAftermath_noEviction(script, cachedDataPath, delay, rnd) ==
    IF script.cachedDataRejected
    THEN [trace |-> <<Ev("onNodeCachedDataError", "cachedDataRejected", cachedDataPath, NoError)>>,
          timer |-> NoTimerSet]
    ELSE [trace |-> <<>>, timer |-> NoTimerSet]

\* An aftermath that also deletes the cache file of a blob that was accepted.
cachedCodeAftermath_hitEvicts(script, cachedDataPath, delay, rnd) ==
    LET timeout == runSoonTimeout([num |-> delay, den |-> 1], rnd)
    IN  IF script.cachedDataProduced
        THEN [trace |-> <<Ev("runSoon", "writeFile", cachedDataPath, NoError)>>,
              timer |-> [state |-> "set", op |-> "writeFile", path |-> cachedDataPath,
                         data |-> script.cachedData, remaining |-> timeout]]
        ELSE [trace |-> <<Ev("onNodeCachedDataError", "cachedDataRejected", cachedDataPath, NoError),
                          Ev("runSoon", "unlink", cachedDataPath, NoError)>>,
              timer |-> [state |-> "set", op |-> "unlink", path |-> cachedDataPath,
                         data |-> Undefined, remaining |-> timeout]]

\* "cached code after math": the hook call and the timer the flags of the
\* compiled unit give rise to
cachedCodeAftermath(script, cachedDataPath, delay, rnd) ==
    LET timeout == runSoonTimeout([num |-> delay, den |-> 1], rnd)
    IN  IF script.cachedDataRejected
        THEN [trace |-> <<Ev("onNodeCachedDataError", "cachedDataRejected", cachedDataPath, NoError),
                          Ev("runSoon", "unlink", cachedDataPath, NoError)>>,
              timer |-> [state |-> "set", op |-> "unlink", path |-> cachedDataPath,
                         data |-> Undefined, remaining |-> timeout]]
        ELSE IF script.cachedDataProduced
        THEN [trace |-> <<Ev("runSoon", "writeFile", cachedDataPath, NoError)>>,
              timer |-> [state |-> "set", op |-> "writeFile", path |-> cachedDataPath,
                         data |-> script.cachedData, remaining |-> timeout]]
        ELSE [trace |-> <<>>, timer |-> NoTimerSet]

\* A cache-read callback that reports success after the aftermath.
evalThenCallback_aftermathFirst(evalTrace, aftermathTrace) ==
    evalTrace \o aftermathTrace \o <<Ev("callback", "", <<>>, NoError)>>

\* The order of the cache-read callback: evaluate, callback(), aftermath
evalThenCallback(evalTrace, aftermathTrace) ==
    evalTrace \o <<Ev("callback", "", <<>>, NoError)>> \o aftermathTrace

NodeIdle ==
    /\ nodeOpts = [nodeCachedDataDir |-> NoDir, nodeCachedDataWriteDelay |-> 1]
    /\ nodeLoads = <<>>
    /\ cacheFiles = [p \in CachePaths |-> NoFile]
    /\ defineQueue = <<>>

\* The loader is constructed; the options either name no cache directory or
\* name one, in which the blob of a module is absent, stale or valid.
NodeInit ==
    /\ nodeLoads = <<>>
    /\ defineQueue = <<>>
    /\ \/ /\ nodeOpts = [nodeCachedDataDir |-> NoDir, nodeCachedDataWriteDelay |-> 1]
          /\ cacheFiles = [p \in CachePaths |-> NoFile]
       \/ /\ nodeOpts \in [nodeCachedDataDir : {CacheDir},
                           nodeCachedDataWriteDelay : 1..MaxWriteDelay]
          /\ \E kind \in {"absent", "stale", "valid"} :
                cacheFiles = [p \in CachePaths |->
                    LET f == CHOOSE g \in ModuleFiles : getCachedDataPath(CacheDir, g) = p
                    IN  CASE kind = "absent" -> NoFile
                          [] kind = "stale"  -> StaleBlob
                          [] kind = "valid"  -> [for |-> f, by |-> 0]]

NewLoad(scriptSrc, pc, trace) ==
    [scriptSrc |-> scriptSrc, pc |-> pc, trace |-> trace,
     cachedDataPath |-> <<>>, options |-> NoOptions, script |-> NoScript,
     timer |-> NoTimerSet]

\* NodeScriptLoader.load(moduleManager, scriptSrc, callback, errorback), up
\* to its return; required is the error nodeRequire throws, if any.
NodeLoad(scriptSrc, required) ==
    LET id == Len(nodeLoads) + 1
        pieces == split(scriptSrc, "|")
    IN  /\ Len(nodeLoads) < MaxNodeLoads
        /\ IF isNodeForm(scriptSrc)
           THEN IF required # NoError
                THEN /\ nodeLoads' = Append(nodeLoads,
                            NewLoad(scriptSrc, "done", <<Ev("errorback", "", <<>>, required)>>))
                     /\ UNCHANGED defineQueue
                ELSE /\ defineQueue' = Append(defineQueue,
                            [dependencies |-> <<>>, returns |-> pieces[2], by |-> id])
                     /\ nodeLoads' = Append(nodeLoads,
                            NewLoad(scriptSrc, "done",
                                <<Ev("enqueueDefineAnonymousModule", "", <<>>, NoError),
                                  Ev("callback", "", <<>>, NoError)>>))
           ELSE /\ required = NoError
                /\ nodeLoads' = Append(nodeLoads,
                       NewLoad(fileUriToFilePath(scriptSrc), "readFile", <<>>))
                /\ UNCHANGED defineQueue
        /\ UNCHANGED <<nodeOpts, cacheFiles, onceVars, workerVars, browserVars,
                       runSoonVars, wrapVars, actualScriptLoader>>

\* The callback of this._fs.readFile(scriptSrc, { encoding: 'utf8' }, ...);
\* err is the read error, evalDoes what evaluating the unit throws.
ReadFileCallback(id, err, evalDoes) ==
    /\ id \in 1..Len(nodeLoads)
    /\ nodeLoads[id].pc = "readFile"
    /\ LET load == nodeLoads[id]
           eval == loadAndEvalScript(load.scriptSrc, NoOptions, evalDoes, FALSE, id)
       IN  nodeLoads' = [nodeLoads EXCEPT ![id] =
              IF err # NoError
              THEN [load EXCEPT !.pc = "done",
                                !.trace = <<Ev("errorback", "", <<>>, err)>>]
              ELSE IF nodeOpts.nodeCachedDataDir = NoDir
              THEN IF eval.thrown # NoError
                   THEN [load EXCEPT !.pc = "threw", !.trace = eval.trace]
                   ELSE [load EXCEPT !.pc = "done",
                                     !.trace = eval.trace \o <<Ev("callback", "", <<>>, NoError)>>]
              ELSE [load EXCEPT !.pc = "readCache",
                                !.cachedDataPath =
                                    getCachedDataPath(nodeOpts.nodeCachedDataDir, load.scriptSrc)]]
    /\ UNCHANGED <<nodeOpts, cacheFiles, defineQueue, onceVars, workerVars,
                   browserVars, runSoonVars, wrapVars, actualScriptLoader>>

\* The callback of this._fs.readFile(cachedDataPath, ...); readFails says
\* that the read failed (it always fails when there is no file).
ReadCacheCallback(id, readFails, evalDoes, produced, rnd) ==
    /\ id \in 1..Len(nodeLoads)
    /\ nodeLoads[id].pc = "readCache"
    /\ LET load    == nodeLoads[id]
           file    == cacheFiles[load.cachedDataPath]
           data    == IF readFails \/ file = NoFile THEN Undefined ELSE file
           options == scriptOptions(data)
           eval    == loadAndEvalScript(load.scriptSrc, options, evalDoes, produced, id)
           after   == cachedCodeAftermath(eval.script, load.cachedDataPath,
                                          nodeOpts.nodeCachedDataWriteDelay, rnd)
       IN  nodeLoads' = [nodeLoads EXCEPT ![id] =
              IF eval.thrown # NoError
              THEN [load EXCEPT !.pc = "threw", !.options = options, !.trace = eval.trace]
              ELSE [load EXCEPT !.pc = "done", !.options = options, !.script = eval.script,
                                !.trace = evalThenCallback(eval.trace, after.trace),
                                !.timer = after.timer]]
    /\ UNCHANGED <<nodeOpts, cacheFiles, defineQueue, onceVars, workerVars,
                   browserVars, runSoonVars, wrapVars, actualScriptLoader>>

\* The timer of _runSoon fires, no sooner than its timeout: this._fs.unlink
\* or this._fs.writeFile is called.
TimerFires(id) ==
    /\ id \in 1..Len(nodeLoads)
    /\ nodeLoads[id].timer.state = "set"
    /\ nodeLoads[id].timer.remaining = 0
    /\ nodeLoads' = [nodeLoads EXCEPT ![id].timer.state = "io"]
    /\ UNCHANGED <<nodeOpts, cacheFiles, defineQueue, onceVars, workerVars,
                   browserVars, runSoonVars, wrapVars, actualScriptLoader>>

\* A file-operation callback that hands the error to the errorback of the
\* load as well as to the hook.
FsCallback_failsTheLoad(id, err) ==
    /\ id \in 1..Len(nodeLoads)
    /\ nodeLoads[id].timer.state = "io"
    /\ LET timer == nodeLoads[id].timer
           hook  == IF err # NoError
                    THEN <<Ev("onNodeCachedDataError", timer.op, timer.path, err),
                           Ev("errorback", "", <<>>, err)>>
                    ELSE <<>>
       IN  /\ (timer.op = "unlink" /\ cacheFiles[timer.path] = NoFile) => err # NoError
           /\ cacheFiles' =
                 IF err # NoError THEN cacheFiles
                 ELSE IF timer.op = "unlink"
                 THEN [cacheFiles EXCEPT ![timer.path] = NoFile]
                 ELSE [cacheFiles EXCEPT ![timer.path] = timer.data]
           /\ nodeLoads' = [nodeLoads EXCEPT
                 ![id].timer.state = "done",
                 ![id].trace = @ \o <<Ev(timer.op, "", timer.path, err)>> \o hook]
    /\ UNCHANGED <<nodeOpts, defineQueue, onceVars, workerVars, browserVars, runSoonVars,
                   wrapVars, actualScriptLoader>>

\* The file operation completes and its callback runs; err is its error
\* (deleting a file that is not there always fails).
FsCallback(id, err) ==
    /\ id \in 1..Len(nodeLoads)
    /\ nodeLoads[id].timer.state = "io"
    /\ LET timer == nodeLoads[id].timer
           hook  == IF err # NoError
                    THEN <<Ev("onNodeCachedDataError", timer.op, timer.path, err)>>
                    ELSE <<>>
       IN  /\ (timer.op = "unlink" /\ cacheFiles[timer.path] = NoFile) => err # NoError
           /\ cacheFiles' =
                 IF err # NoError THEN cacheFiles
                 ELSE IF timer.op = "unlink"
                 THEN [cacheFiles EXCEPT ![timer.path] = NoFile]
                 ELSE [cacheFiles EXCEPT ![timer.path] = timer.data]
           /\ nodeLoads' = [nodeLoads EXCEPT
                 ![id].timer.state = "done",
                 ![id].trace = @ \o <<Ev(timer.op, "", timer.path, err)>> \o hook]
    /\ UNCHANGED <<nodeOpts, defineQueue, onceVars, workerVars, browserVars,
                   runSoonVars, wrapVars, actualScriptLoader>>

\* A unit of time passes for the timers that are waiting.
Tick ==
    /\ \E id \in 1..Len(nodeLoads) :
          nodeLoads[id].timer.state = "set" /\ nodeLoads[id].timer.remaining > 0
    /\ nodeLoads' = [id \in 1..Len(nodeLoads) |->
          IF nodeLoads[id].timer.state = "set" /\ nodeLoads[id].timer.remaining > 0
          THEN [nodeLoads[id] EXCEPT !.timer.remaining = @ - 1]
          ELSE nodeLoads[id]]
    /\ UNCHANGED <<nodeOpts, cacheFiles, defineQueue, onceVars, workerVars,
                   browserVars, runSoonVars, wrapVars, actualScriptLoader>>

NextNode ==
    \/ \E scriptSrc \in NodeLocators, required \in NodeBehaviours :
          NodeLoad(scriptSrc, required)
    \/ \E id \in 1..MaxNodeLoads, err \in NodeBehaviours, evalDoes \in NodeBehaviours :
          ReadFileCallback(id, err, evalDoes)
    \/ \E id \in 1..MaxNodeLoads, readFails \in BOOLEAN, evalDoes \in NodeBehaviours,
          produced \in BOOLEAN, rnd \in 0..(RandomDen - 1) :
          ReadCacheCallback(id, readFails, evalDoes, produced, rnd)
    \/ \E id \in 1..MaxNodeLoads : TimerFires(id)
    \/ \E id \in 1..MaxNodeLoads, err \in NodeBehaviours : FsCallback(id, err)
    \/ Tick

----------------------------------------------------------------------------
(* NodeScriptLoader: repeated loads of one file under a cache directory      *)

MaxCacheLoads == 3

\* How far the load before this one had got when load was called: "start"
\* (there is none), "running" (its handlers have not all run), or the state
\* of its timer ("none": it scheduled nothing).
PreviousLoad ==
    IF nodeLoads = <<>>
    THEN "start"
    ELSE IF nodeLoads[Len(nodeLoads)].pc \in {"done", "threw"}
    THEN nodeLoads[Len(nodeLoads)].timer.state
    ELSE "running"

\* The options name a cache directory; the blob of the module is absent,
\* stale or valid.
CacheInit ==
    /\ nodeLoads = <<>>
    /\ defineQueue = <<>>
    /\ nodeOpts \in [nodeCachedDataDir : {CacheDir},
                     nodeCachedDataWriteDelay : 1..MaxWriteDelay]
    /\ \E blob \in {NoFile, StaleBlob, [for |-> ModuleJs, by |-> 0]} :
          cacheFiles = [p \in CachePaths |-> blob]

\* NodeScriptLoader.load(moduleManager, 'file:///a/m.js', callback, errorback),
\* up to its return, by this process or another one; the load remembers how
\* far the load before it had got.
CacheLoad ==
    /\ Len(nodeLoads) < MaxCacheLoads
    /\ nodeLoads' = Append(nodeLoads,
          [after |-> PreviousLoad]
              @@ NewLoad(fileUriToFilePath(FileScheme \o ModuleJs), "readFile", <<>>))
    /\ UNCHANGED <<nodeOpts, cacheFiles, defineQueue, onceVars, workerVars, browserVars,
                   runSoonVars, wrapVars, actualScriptLoader>>

\* The file system works: the only operation that fails is the delete of a
\* file that is not there.
FsWorks(id, err) ==
    err # NoError =>
        /\ id \in 1..Len(nodeLoads)
        /\ nodeLoads[id].timer.op = "unlink"
        /\ cacheFiles[nodeLoads[id].timer.path] = NoFile

NextCache ==
    \/ CacheLoad
    \/ \E id \in 1..MaxCacheLoads : ReadFileCallback(id, NoError, NoError)
    \/ \E id \in 1..MaxCacheLoads, produced \in BOOLEAN, rnd \in 0..(RandomDen - 1) :
          ReadCacheCallback(id, FALSE, NoError, produced, rnd)
    \/ \E id \in 1..MaxCacheLoads : TimerFires(id)
    \/ \E id \in 1..MaxCacheLoads, err \in NodeBehaviours :
          FsWorks(id, err) /\ FsCallback(id, err)
    \/ Tick

----------------------------------------------------------------------------
(* NodeScriptLoader.load: wrapping the text of a file                       *)

MaxDataLen == 4

\* NodeScriptLoader._BOM = 0xFEFF, as a character
BOM == "\\uFEFF"

\* The characters of the texts read: the byte-order mark, a letter, a line end
DataChars == {BOM, "a", "\n"}

RECURSIVE TextsOfLen(_)
TextsOfLen(n) ==
    IF n = 0
    THEN {<<>>}
    ELSE {<<c>> \o t : c \in DataChars, t \in TextsOfLen(n - 1)}

DataTexts == UNION {TextsOfLen(n) : n \in 0..MaxDataLen}

\* prefix = '(function (require, define, __filename, __dirname) { '
WrapPrefix ==
    <<"(", "f", "u", "n", "c", "t", "i", "o", "n", " ", "(", "r", "e", "q",
      "u", "i", "r", "e", ",", " ", "d", "e", "f", "i", "n", "e", ",", " ",
      "_", "_", "f", "i", "l", "e", "n", "a", "m", "e", ",", " ", "_", "_",
      "d", "i", "r", "n", "a", "m", "e", ")", " ", "{", " ">>

\* suffix = '\n});'
WrapSuffix ==
    <<"\n", "}", ")", ";">>

\* data.charCodeAt(0) === NodeScriptLoader._BOM (charCodeAt(0) of the empty
\* string is NaN, which equals nothing)
startsWithBOM(str) == Len(str) > 0 /\ str[1] = BOM

\* data.substring(1)
substring1(str) == SubSeq(str, 2, Len(str))

\* A wrapping that keeps the byte-order mark.
wrap_keepsBOM(str) == WrapPrefix \o str \o WrapSuffix

\* contents = prefix + (BOM-stripped data) + suffix
wrap(str) ==
    IF startsWithBOM(str)
    THEN WrapPrefix \o substring1(str) \o WrapSuffix
    ELSE WrapPrefix \o str \o WrapSuffix

NotWrapped == <<>>

WrapIdle ==
    /\ fileData = <<>>
    /\ contents = NotWrapped

WrapInit ==
    /\ fileData \in DataTexts
    /\ contents = NotWrapped

\* The lines of the readFile callback that build `contents`
Wrap ==
    /\ contents = NotWrapped
    /\ contents' = wrap(fileData)
    /\ UNCHANGED <<fileData, actualScriptLoader, onceVars, workerVars, browserVars,
                   runSoonVars, nodeVars>>

NextWrap == Wrap

----------------------------------------------------------------------------
(* scriptLoader: the OnlyOnceScriptLoader around the strategy of the         *)
(* environment, with caller callbacks that may raise an error or load again *)

MaxWaiters == 4

Strategies == {"WorkerScriptLoader", "NodeScriptLoader", "BrowserScriptLoader"}

\* isWebWorker ? new WorkerScriptLoader() : isNode ? new NodeScriptLoader()
\*                                                 : new BrowserScriptLoader()
strategyOf(isWebWorker, isNode) ==
    IF isWebWorker THEN "WorkerScriptLoader"
    ELSE IF isNode THEN "NodeScriptLoader"
    ELSE "BrowserScriptLoader"

\* The locators given to scriptLoader.load: a file and a native module
ScriptLocators == {ModuleNoExt, NodePrefix \o NativeModule}

\* What a callback of the caller does when it is called: it returns, it
\* raises an error, or it calls scriptLoader.load for its own locator, with
\* callbacks that return, and then returns.
CallbackDoes == {"return", "raise", "load"}

\* The error a caller callback raises
Raised == "Raised"

\* The error of reading .length of undefined
TypeError == "TypeError"

\* The decorator's state while a handler runs: the pending map, the number
\* of underlying loads started and outstanding, the handler runs, the load
\* calls and the caller callbacks called.
LoaderState ==
    [map |-> callbackMap, loads |-> actualLoads, out |-> outstanding,
     done |-> completed, reg |-> registered, log |-> invoked]

RECURSIVE loaderLoad(_, _, _, _, _, _)
RECURSIVE actualLoad(_, _, _, _)
RECURSIVE trigger(_, _, _, _, _)
RECURSIVE fanOut(_, _, _, _, _, _, _, _)

\* OnlyOnceScriptLoader.load, called with callbacks that do `does`, from
\* inside the fan-out of underlying load `during` of the locator (0: from
\* outside any callback). result is what the import or the resolution of
\* this load throws, nested that of the loads made by callbacks.
loaderLoad(st, scriptSrc, does, during, result, nested) ==
    LET w == Len(st.reg) + 1
        scriptCallbacks == [callback |-> w, errorback |-> w]
        joins == hasOwnProperty(st.map, scriptSrc)
        call == [src |-> scriptSrc, does |-> does, during |-> during,
                 started |-> ~joins,
                 serves |-> IF joins THEN st.loads[scriptSrc]
                            ELSE st.loads[scriptSrc] + 1]
    IN  IF joins
        THEN [st |-> [st EXCEPT !.reg = Append(@, call),
                                !.map[scriptSrc] = Append(@, scriptCallbacks)],
              thrown |-> NoError]
        ELSE actualLoad(
                 [st EXCEPT !.reg = Append(@, call),
                            !.map = setEntry(st.map, scriptSrc, <<scriptCallbacks>>),
                            !.loads[scriptSrc] = @ + 1],
                 scriptSrc, result, nested)

\* this.actualScriptLoader.load(moduleManager, scriptSrc, () =>
\* this.triggerCallback(scriptSrc), (err) => this.triggerErrorback(scriptSrc, err)):
\* the worker strategy calls back inside its try block, the host-process
\* strategy calls back within load for a native module (outside its try
\* block), and otherwise the handlers are called later.
actualLoad(st, scriptSrc, result, nested) ==
    CASE actualScriptLoader = "WorkerScriptLoader" ->
            IF result # NoError
            THEN trigger(st, scriptSrc, "errorback", result, nested)
            ELSE LET tried == trigger(st, scriptSrc, "callback", NoError, nested)
                 IN  IF tried.thrown = NoError
                     THEN tried
                     ELSE trigger(tried.st, scriptSrc, "errorback", tried.thrown, nested)
      [] actualScriptLoader = "NodeScriptLoader" /\ isNodeForm(scriptSrc) ->
            IF result # NoError
            THEN trigger(st, scriptSrc, "errorback", result, nested)
            ELSE trigger(st, scriptSrc, "callback", NoError, nested)
      [] OTHER ->
            [st |-> [st EXCEPT !.out[scriptSrc] = @ + 1], thrown |-> NoError]

\* A completion handler that deletes the pending entry after the loop.
trigger_deletesAfterLoop(st, scriptSrc, fn, err, nested) ==
    LET n   == st.loads[scriptSrc]
        had == hasOwnProperty(st.map, scriptSrc)
        ran == [st EXCEPT !.done[scriptSrc] =
                              Append(@, [fn |-> fn, err |-> err, of |-> n, hadEntry |-> had])]
    IN  IF ~had
        THEN [st |-> ran, thrown |-> TypeError]
        ELSE LET r == fanOut(ran, scriptSrc, n, st.map[scriptSrc], 1, fn, err, nested)
             IN  [st |-> [r.st EXCEPT !.map = deleteEntry(r.st.map, scriptSrc)],
                  thrown |-> r.thrown]

\* triggerCallback(scriptSrc) (fn = "callback") and triggerErrorback(scriptSrc,
\* err) (fn = "errorback"): the list is read, the entry deleted, the list
\* walked; with no entry the list is undefined and reading its length throws.
trigger(st, scriptSrc, fn, err, nested) ==
    LET n   == st.loads[scriptSrc]
        had == hasOwnProperty(st.map, scriptSrc)
        ran == [st EXCEPT !.done[scriptSrc] =
                              Append(@, [fn |-> fn, err |-> err, of |-> n, hadEntry |-> had]),
                          !.map = deleteEntry(st.map, scriptSrc)]
    IN  IF ~had
        THEN [st |-> ran, thrown |-> TypeError]
        ELSE fanOut(ran, scriptSrc, n, st.map[scriptSrc], 1, fn, err, nested)

\* for (let i = 0; i < scriptCallbacks.length; i++) { scriptCallbacks[i].callback(); }
\* from position i on: an error a callback raises leaves the loop.
fanOut(st, scriptSrc, n, scriptCallbacks, i, fn, err, nested) ==
    IF i > Len(scriptCallbacks)
    THEN [st |-> st, thrown |-> NoError]
    ELSE LET w      == IF fn = "callback"
                       THEN scriptCallbacks[i].callback
                       ELSE scriptCallbacks[i].errorback
             called == [st EXCEPT !.log =
                                      Append(@, [fn |-> fn, of |-> w, err |-> err, by |-> n])]
             does   == st.reg[w].does
         IN  CASE does = "return" ->
                     fanOut(called, scriptSrc, n, scriptCallbacks, i + 1, fn, err, nested)
               [] does = "raise" ->
                     [st |-> called, thrown |-> Raised]
               [] does = "load" ->
                     LET r == loaderLoad(called, scriptSrc, "return", n, nested, nested)
                     IN  IF r.thrown # NoError
                         THEN r
                         ELSE fanOut(r.st, scriptSrc, n, scriptCallbacks, i + 1, fn, err, nested)

\* The load calls that the callbacks registered so far may still make.
Reserved ==
    Cardinality({w \in 1..Len(registered) :
                    /\ registered[w].does = "load"
                    /\ \A i \in 1..Len(invoked) : invoked[i].of # w})

\* The environment is detected and scriptLoader constructed.
LoaderInit ==
    /\ callbackMap = <<>>
    /\ actualLoads = [l \in ScriptLocators |-> 0]
    /\ outstanding = [l \in ScriptLocators |-> 0]
    /\ completed = [l \in ScriptLocators |-> <<>>]
    /\ registered = <<>>
    /\ invoked = <<>>
    /\ \E isWebWorker \in BOOLEAN, isNode \in BOOLEAN :
          actualScriptLoader = strategyOf(isWebWorker, isNode)

\* The variables take the state a handler left.
LoaderBecomes(st) ==
    /\ callbackMap' = st.map
    /\ actualLoads' = st.loads
    /\ outstanding' = st.out
    /\ completed' = st.done
    /\ registered' = st.reg
    /\ invoked' = st.log
    /\ UNCHANGED <<actualScriptLoader, workerVars, browserVars, runSoonVars, nodeVars,
                   wrapVars>>

\* scriptLoader.load(moduleManager, scriptSrc, callback, errorback), called
\* from outside any callback
LoaderLoad(scriptSrc, does, result, nested) ==
    /\ Len(registered) + Reserved + (IF does = "load" THEN 2 ELSE 1) <= MaxWaiters
    /\ LoaderBecomes(loaderLoad(LoaderState, scriptSrc, does, 0, result, nested).st)

\* The strategy calls a handler later: the listener of the script element's
\* first event, or the callback of a readFile of the host-process strategy.
LoaderCompletes(scriptSrc, err, nested) ==
    /\ outstanding[scriptSrc] > 0
    /\ LoaderBecomes(
          trigger([LoaderState EXCEPT !.out[scriptSrc] = @ - 1], scriptSrc,
                  IF err = NoError THEN "callback" ELSE "errorback", err, nested).st)

NextLoader ==
    \/ \E scriptSrc \in ScriptLocators, does \in CallbackDoes,
          result \in NodeBehaviours, nested \in NodeBehaviours :
          LoaderLoad(scriptSrc, does, result, nested)
    \/ \E scriptSrc \in ScriptLocators, err \in NodeBehaviours, nested \in NodeBehaviours :
          LoaderCompletes(scriptSrc, err, nested)

----------------------------------------------------------------------------
(* Next-state relation of the decorator *)

NextOnce ==
    \/ \E scriptSrc \in Locators, mode \in ActualModes, err \in Errors :
          OnceLoad(scriptSrc, mode, err)
    \/ \E scriptSrc \in Locators : ActualSuccess(scriptSrc)
    \/ \E scriptSrc \in Locators, err \in Errors : ActualFailure(scriptSrc, err)


----------------------------------------------------------------------------
(* Specifications: one per component                                        *)

InitOnce ==
    OnceInit /\ WorkerInit /\ BrowserInit /\ RunSoonIdle /\ NodeIdle /\ WrapIdle /\ LoaderIdle

SpecOnce == InitOnce /\ [][NextOnce]_vars

InitWorker ==
    OnceInit /\ WorkerInit /\ BrowserInit /\ RunSoonIdle /\ NodeIdle /\ WrapIdle /\ LoaderIdle

SpecWorker == InitWorker /\ [][NextWorker]_vars

InitBrowser ==
    OnceInit /\ WorkerInit /\ BrowserInit /\ RunSoonIdle /\ NodeIdle /\ WrapIdle /\ LoaderIdle

SpecBrowser == InitBrowser /\ [][NextBrowser]_vars

InitRunSoon ==
    OnceInit /\ WorkerInit /\ BrowserInit /\ RunSoonInit /\ NodeIdle /\ WrapIdle /\ LoaderIdle

SpecRunSoon == InitRunSoon /\ [][NextRunSoon]_vars

InitNode ==
    OnceInit /\ WorkerInit /\ BrowserInit /\ RunSoonIdle /\ NodeInit /\ WrapIdle /\ LoaderIdle

SpecNode == InitNode /\ [][NextNode]_vars

InitCache ==
    OnceInit /\ WorkerInit /\ BrowserInit /\ RunSoonIdle /\ CacheInit /\ WrapIdle /\ LoaderIdle

SpecCache == InitCache /\ [][NextCache]_vars

InitLoader ==
    LoaderInit /\ WorkerInit /\ BrowserInit /\ RunSoonIdle /\ NodeIdle /\ WrapIdle

SpecLoader == InitLoader /\ [][NextLoader]_vars

InitWrap ==
    OnceInit /\ WorkerInit /\ BrowserInit /\ RunSoonIdle /\ NodeIdle /\ WrapInit /\ LoaderIdle

SpecWrap == InitWrap /\ [][NextWrap]_vars

\* The event loop lets time pass, runs a timer that is due and completes a
\* file operation that was started.
FairSpecNode ==
    /\ SpecNode
    /\ WF_vars(Tick)
    /\ \A id \in 1..MaxNodeLoads :
          /\ WF_vars(TimerFires(id))
          /\ WF_vars(\E err \in NodeBehaviours : FsCallback(id, err))

----------------------------------------------------------------------------
(* Claims on the OnlyOnceScriptLoader                                       *)

Waiters == 1..Len(registered)

\* The positions of invoked at which waiter w was called.
CallsOf(w) == {i \in 1..Len(invoked) : invoked[i].of = w}

\* The waiters that asked for scriptSrc after `epoch` underlying loads of it
\* had called back: the load calls issued between two completions.
Cohort(scriptSrc, epoch) ==
    {w \in Waiters : registered[w].src = scriptSrc /\ registered[w].epoch = epoch}

Epochs(scriptSrc) == {registered[w].epoch : w \in {v \in Waiters : registered[v].src = scriptSrc}}

\* The call a waiter is owed once the underlying load of its cohort has
\* called back with `outcome`.
Owed(w, outcome) ==
    IF outcome.ok
    THEN [fn |-> "callback", of |-> w, err |-> NoError]
    ELSE [fn |-> "errorback", of |-> w, err |-> outcome.err]

\* C1: the load calls issued for a locator before its underlying load calls
\* back share one invocation of the wrapped loader, and when it calls back
\* each of them is notified exactly once, in registration order, by the
\* callback that matches the outcome (with the underlying error on failure);
\* nobody is notified before that.
C1_FanOut ==
    /\ \A l \in Locators : actualLoads[l] = Cardinality(Epochs(l))
    /\ \A w \in Waiters :
          LET r == registered[w]
          IN  IF r.epoch < Len(completed[r.src])
              THEN /\ Cardinality(CallsOf(w)) = 1
                   /\ \A i \in CallsOf(w) : invoked[i] = Owed(w, completed[r.src][r.epoch + 1])
              ELSE CallsOf(w) = {}
    /\ \A i, j \in 1..Len(invoked) :
          (i < j /\ registered[invoked[i].of].src = registered[invoked[j].of].src)
              => invoked[i].of < invoked[j].of

\* At least two load calls shared one underlying load, which then failed,
\* and another cohort of at least two was served by a success.
C1_Witness ==
    \E l \in Locators, e \in 0..MaxCalls :
        /\ Cardinality(Cohort(l, e)) >= 2
        /\ e < Len(completed[l])
        /\ ~completed[l][e + 1].ok
        /\ \E l2 \in Locators, e2 \in 0..MaxCalls :
              /\ Cardinality(Cohort(l2, e2)) >= 2
              /\ e2 < Len(completed[l2])
              /\ completed[l2][e2 + 1].ok

\* A step that is a load call for scriptSrc.
IsLoadOf(scriptSrc) ==
    /\ Len(registered') = Len(registered) + 1
    /\ registered'[Len(registered')].src = scriptSrc

\* C2: no locator ever has more than one underlying load outstanding, and a
\* load call for a locator that is in the pending set only appends its
\* callback pair: it starts no underlying load and notifies nobody.
C2_AtMostOneOutstanding ==
    /\ [](\A l \in Locators : outstanding[l] <= 1)
    /\ [][\A l \in Locators :
            (l \in DOMAIN callbackMap /\ IsLoadOf(l)) =>
                /\ actualLoads' = actualLoads
                /\ outstanding' = outstanding
                /\ invoked' = invoked
                /\ DOMAIN callbackMap' = DOMAIN callbackMap
                /\ \A k \in DOMAIN callbackMap : k # l => callbackMap'[k] = callbackMap[k]
                /\ callbackMap'[l] = Append(callbackMap[l],
                       [callback |-> Len(registered'), errorback |-> Len(registered')])
         ]_vars

\* Two locators are pending at once, one of them with three waiters queued
\* behind a single outstanding load.
C2_Witness ==
    \E l, k \in Locators :
        /\ l # k
        /\ l \in DOMAIN callbackMap /\ k \in DOMAIN callbackMap
        /\ Len(callbackMap[l]) = 3
        /\ actualLoads[l] = 1 /\ outstanding[l] = 1

\* A step in which an underlying load of scriptSrc calls back.
IsCompletionOf(scriptSrc) == Len(completed'[scriptSrc]) = Len(completed[scriptSrc]) + 1

\* C3: a pending entry exists only while its underlying load is outstanding,
\* and the step in which that load calls back, by success or by failure,
\* leaves no entry for the locator; a load call for a locator with no entry
\* invokes the wrapped loader once more, and the wrapped loader is invoked
\* in no step other than such a load call.
C3_EntryClearedAndFreshAttempt ==
    /\ [](\A l \in DOMAIN callbackMap : outstanding[l] = 1)
    /\ [][\A l \in Locators :
            /\ IsCompletionOf(l) => l \notin DOMAIN callbackMap'
            /\ (l \notin DOMAIN callbackMap /\ IsLoadOf(l)) =>
                   actualLoads'[l] = actualLoads[l] + 1
            /\ actualLoads'[l] # actualLoads[l] =>
                   (l \notin DOMAIN callbackMap /\ IsLoadOf(l))
         ]_vars

\* A locator whose load failed was asked for again and the wrapped loader
\* was invoked a second time, which then succeeded.
C3_Witness ==
    \E l \in Locators :
        /\ Len(completed[l]) = 2
        /\ ~completed[l][1].ok
        /\ completed[l][2].ok
        /\ actualLoads[l] = 2
        /\ l \notin DOMAIN callbackMap

----------------------------------------------------------------------------
(* Claims on the WorkerScriptLoader                                         *)

\* C5: every load of the worker strategy calls exactly one of its two
\* callbacks, exactly once: the errorback with the import's error when the
\* import throws, the callback otherwise, whatever the callbacks do.
C5_ExactlyOneCallback ==
    \A i \in 1..Len(workerLoads) :
        LET l == workerLoads[i]
        IN  IF l.imported # NoError
            THEN l.calls = <<[fn |-> "errorback", err |-> l.imported]>>
            ELSE l.calls = <<[fn |-> "callback", err |-> NoError]>>

----------------------------------------------------------------------------
(* Claims on the BrowserScriptLoader                                        *)

\* The call the first event delivered to a script element gives rise to.
CallFor(event) ==
    IF event.type = "load"
    THEN [fn |-> "callback", err |-> NoError]
    ELSE [fn |-> "errorback", err |-> event.e]

\* C6: the first load or error event a script element receives detaches
\* both listeners, so over any sequence of events the element calls at most
\* one of the two callbacks, at most once: the one of its first event.
C6_ListenersDetached ==
    \A s \in 1..Len(scripts) :
        LET script == scripts[s]
        IN  IF script.delivered = 0
            THEN /\ script.calls = <<>>
                 /\ script.loadEventListener /\ script.errorEventListener
            ELSE /\ script.calls = <<CallFor(script.first)>>
                 /\ ~script.loadEventListener /\ ~script.errorEventListener

\* A script element received an error event first and a load event as the
\* last of three, and called back once; another received a load event first
\* and an error event later.
C6_Witness ==
    \E s, t \in 1..Len(scripts) :
        /\ scripts[s].delivered = 3
        /\ scripts[s].first.type = "error"
        /\ scripts[s].last.type = "load"
        /\ Len(scripts[s].calls) = 1
        /\ scripts[t].first.type = "load"
        /\ scripts[t].last.type = "error"

----------------------------------------------------------------------------
(* Claims on the NodeScriptLoader                                           *)

NodeLoadIds == 1..Len(nodeLoads)

\* The positions of a trace that hold an event of the given kinds.
At(trace, evs) == {i \in 1..Len(trace) : trace[i].ev \in evs}

CallbackEvs == {"callback", "errorback"}

AftermathEvs == {"onNodeCachedDataError", "runSoon", "unlink", "writeFile"}

\* The handlers of a load have all run (its timer aside).
Settled(id) == nodeLoads[id].pc \in {"done", "threw"}

\* C4: every load of the host-process strategy calls exactly one of its two
\* callbacks, exactly once, whatever module resolution, the file read, the
\* cache read and the evaluation of the unit do.
C4_ExactlyOneCallback ==
    \A id \in NodeLoadIds :
        Settled(id) => Cardinality(At(nodeLoads[id].trace, CallbackEvs)) = 1

\* C7: in a load with a cache directory, callback() is called right after
\* the unit was evaluated and before any cache aftermath of the load: no hook
\* call, no scheduling of a timer and no file operation precedes it.
C7_SuccessBeforeAftermath ==
    \A id \in NodeLoadIds :
        LET trace == nodeLoads[id].trace
        IN  /\ \A j \in At(trace, AftermathEvs) :
                  \E i \in At(trace, {"callback"}) : i < j
            /\ nodeLoads[id].timer.state # "none" => At(trace, {"callback"}) # {}
            /\ \A i \in At(trace, {"callback"}) :
                  nodeLoads[id].cachedDataPath # <<>> =>
                      /\ i = 3
                      /\ trace[i - 1].code = "NodeEndEvaluatingScript"

\* A load with a rejected blob reported success, then called the hook, and
\* its delete has been performed.
C7_Witness ==
    \E id \in NodeLoadIds :
        /\ nodeLoads[id].script.cachedDataRejected
        /\ nodeLoads[id].timer.state = "done"
        /\ Len(nodeLoads[id].trace) >= 6
        /\ nodeLoads[id].trace[3].ev = "callback"
        /\ nodeLoads[id].trace[4].ev = "onNodeCachedDataError"

\* The load evaluated its unit and the unit is marked rejected.
Rejected(id) == id \in NodeLoadIds /\ nodeLoads[id].script.cachedDataRejected

\* The delete or write of the load has been performed.
Performed(id) == id \in NodeLoadIds /\ nodeLoads[id].timer.state = "done"

\* What a load with a rejected unit has done so far.
C8_RejectedSafe(id) ==
    LET load  == nodeLoads[id]
        trace == load.trace
        path  == load.cachedDataPath
        head  == <<Ev("record", "NodeBeginEvaluatingScript", load.scriptSrc, NoError),
                   Ev("record", "NodeEndEvaluatingScript", load.scriptSrc, NoError),
                   Ev("callback", "", <<>>, NoError),
                   Ev("onNodeCachedDataError", "cachedDataRejected", path, NoError),
                   Ev("runSoon", "unlink", path, NoError)>>
    IN  /\ path = getCachedDataPath(nodeOpts.nodeCachedDataDir, load.scriptSrc)
        /\ load.timer.op = "unlink" /\ load.timer.path = path
        /\ load.timer.state \in {"set", "io"} => trace = head
        /\ load.timer.state = "done" =>
              \E err \in NodeBehaviours :
                  trace = head \o <<Ev("unlink", "", path, err)>>
                      \o (IF err = NoError THEN <<>>
                          ELSE <<Ev("onNodeCachedDataError", "unlink", path, err)>>)

\* C8: a load whose unit is marked rejected calls the hook once with
\* 'cachedDataRejected' and the cache path and schedules a delete of that
\* path; the delete is performed, no sooner than the configured delay after
\* it was scheduled; a failed delete is reported to the hook with 'unlink',
\* the path and the error; and the load stays a reported success.
C8_RejectedEvicted ==
    /\ [](\A id \in NodeLoadIds : Rejected(id) => C8_RejectedSafe(id))
    /\ [][\A id \in NodeLoadIds :
            /\ (nodeLoads[id].timer.state = "none" /\ nodeLoads'[id].timer.state = "set") =>
                   nodeLoads'[id].timer.remaining >= nodeOpts.nodeCachedDataWriteDelay
            /\ nodeLoads'[id].timer.state = "io" => nodeLoads[id].timer.remaining = 0
            /\ nodeLoads[id].timer.state = "set" =>
                   nodeLoads'[id].timer.remaining \in
                       {nodeLoads[id].timer.remaining, nodeLoads[id].timer.remaining - 1}
         ]_vars
    /\ \A id \in 1..MaxNodeLoads : Rejected(id) ~> Performed(id)

\* A delete failed and was reported, after another succeeded.
C8_Witness ==
    \E id, other \in NodeLoadIds :
        /\ Rejected(id) /\ Performed(id)
        /\ nodeLoads[id].trace[Len(nodeLoads[id].trace)].code = "unlink"
        /\ Rejected(other) /\ Performed(other)
        /\ nodeLoads[other].trace[Len(nodeLoads[other].trace)].ev = "unlink"
        /\ nodeLoads[other].trace[Len(nodeLoads[other].trace)].err = NoError

\* The cache file of a module, written out.
ExpectedCachedDataPath(filename) ==
    CASE filename = ModuleJs ->
            <<"/", "c", "/", "57c5d4800c0a35c35fb9d5d44789238b", "-", "m",
              ".", "c", "o", "d", "e">>
      [] filename = ModuleNoExt ->
            <<"/", "c", "/", "e6f4e20d8a3978903ce77257434d0c57", "-", "m",
              ".", "c", "o", "d", "e">>

\* The load read its cache file, got a blob and the unit neither rejected
\* it nor produced one.
CacheHit(id) ==
    /\ nodeLoads[id].pc = "done"
    /\ nodeLoads[id].options.cachedData # Undefined
    /\ ~nodeLoads[id].script.cachedDataRejected
    /\ ~nodeLoads[id].script.cachedDataProduced

\* A step that is the cache-read callback of load id.
IsReadCacheCallback(id) ==
    /\ id \in NodeLoadIds
    /\ nodeLoads[id].pc = "readCache"
    /\ nodeLoads'[id].pc # "readCache"

\* A step in which the write of load id completes without error.
IsWriteDone(id) ==
    /\ id \in NodeLoadIds
    /\ nodeLoads[id].timer.op = "writeFile"
    /\ nodeLoads[id].timer.state = "io"
    /\ nodeLoads'[id].timer.state = "done"
    /\ nodeLoads'[id].trace[Len(nodeLoads'[id].trace)].ev = "writeFile"

\* C10: with a cache directory, a load asks for a blob exactly when it read
\* none, and always when there is no cache file; the blob a load produced is
\* written, when its timer has fired, to <md5 of the path>-<base name
\* without .js>.code in the directory; a load whose blob is accepted
\* schedules nothing, and no cache-read callback changes a cache file.
C10_ColdWriteThenHit ==
    /\ [](\A id \in NodeLoadIds :
            LET load == nodeLoads[id]
            IN  /\ load.cachedDataPath # <<>> =>
                      load.cachedDataPath = ExpectedCachedDataPath(load.scriptSrc)
                /\ (Settled(id) /\ load.cachedDataPath # <<>>) =>
                      (load.options.produceCachedData <=> load.options.cachedData = Undefined)
                /\ load.timer.op = "writeFile" =>
                      /\ load.options.produceCachedData
                      /\ load.timer.path = ExpectedCachedDataPath(load.scriptSrc)
                      /\ load.timer.data = [for |-> load.scriptSrc, by |-> id]
                /\ (load.pc = "done" /\ load.script.cachedDataProduced) =>
                      load.timer.op = "writeFile"
                /\ CacheHit(id) =>
                      /\ load.timer = NoTimerSet
                      /\ At(load.trace, AftermathEvs) = {})
    /\ [][\A id \in 1..MaxNodeLoads :
            /\ IsReadCacheCallback(id) =>
                  /\ cacheFiles' = cacheFiles
                  /\ cacheFiles[nodeLoads[id].cachedDataPath] = NoFile =>
                        nodeLoads'[id].options.produceCachedData
            /\ IsWriteDone(id) =>
                  cacheFiles'[ExpectedCachedDataPath(nodeLoads[id].scriptSrc)] =
                      [for |-> nodeLoads[id].scriptSrc, by |-> id]
         ]_vars

\* The first load found the cache cold and wrote its blob; the second load
\* of the same module read that blob, accepted it and scheduled nothing,
\* and the file still holds the blob of the first load.
C10_Witness ==
    /\ Len(nodeLoads) = 2
    /\ nodeLoads[1].scriptSrc = ModuleJs
    /\ nodeLoads[2].scriptSrc = ModuleJs
    /\ nodeLoads[1].timer.op = "writeFile"
    /\ nodeLoads[1].timer.state = "done"
    /\ CacheHit(2)
    /\ nodeLoads[2].options.cachedData = [for |-> ModuleJs, by |-> 1]
    /\ cacheFiles[ExpectedCachedDataPath(ModuleJs)] = [for |-> ModuleJs, by |-> 1]

\* The definitions load id gave to the module manager.
DefinedBy(id) == {i \in 1..Len(defineQueue) : defineQueue[i].by = id}

\* The name of a native-module locator: what follows 'node|'.
NativeName(scriptSrc) == SubSeq(scriptSrc, Len(NodePrefix) + 1, Len(scriptSrc))

\* C11: a load of the form 'node|<name>' whose resolution throws calls the
\* errorback with that error and nothing else, and registers no definition;
\* one whose resolution returns registers exactly one anonymous definition
\* without dependencies, whose factory returns what was imported for <name>,
\* and then calls the callback. No other load registers a definition.
C11_NativeModule ==
    /\ \A id \in NodeLoadIds :
          LET load == nodeLoads[id]
          IN  IF isNodeForm(load.scriptSrc)
              THEN \/ /\ Len(load.trace) = 1
                      /\ load.trace[1].ev = "errorback"
                      /\ load.trace[1].err \in NodeBehaviours \ {NoError}
                      /\ DefinedBy(id) = {}
                   \/ /\ load.trace = <<Ev("enqueueDefineAnonymousModule", "", <<>>, NoError),
                                        Ev("callback", "", <<>>, NoError)>>
                      /\ Cardinality(DefinedBy(id)) = 1
                      /\ \A i \in DefinedBy(id) :
                            /\ defineQueue[i].dependencies = <<>>
                            /\ defineQueue[i].returns = NativeName(load.scriptSrc)
              ELSE DefinedBy(id) = {}
    /\ \A i \in 1..Len(defineQueue) : defineQueue[i].by \in NodeLoadIds

\* One native module failed to resolve and nothing was registered for it;
\* another load of the same locator resolved and registered its definition.
C11_Witness ==
    \E id, other \in NodeLoadIds :
        /\ isNodeForm(nodeLoads[id].scriptSrc)
        /\ nodeLoads[id].trace[1].ev = "errorback"
        /\ DefinedBy(id) = {}
        /\ isNodeForm(nodeLoads[other].scriptSrc)
        /\ nodeLoads[other].trace[Len(nodeLoads[other].trace)].ev = "callback"
        /\ Len(defineQueue) = 1
        /\ defineQueue[1].returns = NativeModule

\* The cache-read callback of the load ran and was handed no blob: the file
\* was absent or could not be read.
ReadNothing(id) ==
    /\ Settled(id)
    /\ nodeLoads[id].cachedDataPath # <<>>
    /\ nodeLoads[id].options.cachedData = Undefined

\* C12: a load whose cache read gave nothing (the file is absent, or it is
\* there and the read failed) goes on as a cold-cache load: it supplies no
\* blob and asks for one, it never calls the errorback, the read failure is
\* never given to the error hook, the unit is never marked rejected, and
\* once the unit is evaluated the callback is called right after it.
C12_CacheReadFailureIsColdCache ==
    /\ [](\A id \in NodeLoadIds :
            ReadNothing(id) =>
                LET load == nodeLoads[id]
                IN  /\ load.options.produceCachedData
                    /\ At(load.trace, {"errorback"}) = {}
                    /\ \A i \in At(load.trace, {"onNodeCachedDataError"}) :
                          /\ load.trace[i].code = "writeFile"
                          /\ load.timer.state = "done"
                    /\ ~load.script.cachedDataRejected
                    /\ load.pc = "done" =>
                          SubSeq(load.trace, 1, 3) =
                              <<Ev("record", "NodeBeginEvaluatingScript", load.scriptSrc, NoError),
                                Ev("record", "NodeEndEvaluatingScript", load.scriptSrc, NoError),
                                Ev("callback", "", <<>>, NoError)>>)
    /\ [][\A id \in 1..MaxNodeLoads :
            (IsReadCacheCallback(id) /\ cacheFiles[nodeLoads[id].cachedDataPath] = NoFile) =>
                nodeLoads'[id].options.cachedData = Undefined
         ]_vars

\* The cache file of the only load is there, the read of it failed, and the
\* load reported success and scheduled the write of the blob it produced.
C12_Witness ==
    /\ Len(nodeLoads) = 1
    /\ ReadNothing(1)
    /\ cacheFiles[nodeLoads[1].cachedDataPath] # NoFile
    /\ nodeLoads[1].pc = "done"
    /\ At(nodeLoads[1].trace, {"callback"}) = {3}
    /\ nodeLoads[1].timer.op = "writeFile"
    /\ nodeLoads[1].timer.state = "set"

\* The events of a trace that call a callback of the caller.
CallerCalls(trace) == [i \in At(trace, CallbackEvs) |-> trace[i]]

\* What the completed file operation of a load added to its trace: the
\* operation and, if it failed, one hook call with its code, path and error.
CacheActionTail(id) ==
    LET timer == nodeLoads[id].timer
        trace == nodeLoads[id].trace
        n     == Len(trace)
    IN  \/ /\ n >= 1
           /\ trace[n] = Ev(timer.op, "", timer.path, NoError)
           /\ At(trace, {"onNodeCachedDataError"}) \subseteq
                 (IF timer.op = "unlink" THEN {4} ELSE {})
        \/ /\ n >= 2
           /\ \E err \in NodeBehaviours \ {NoError} :
                 /\ trace[n - 1] = Ev(timer.op, "", timer.path, err)
                 /\ trace[n] = Ev("onNodeCachedDataError", timer.op, timer.path, err)
           /\ At(trace, {"onNodeCachedDataError"}) \subseteq
                 (IF timer.op = "unlink" THEN {4, n} ELSE {n})

\* C13: a delayed write or delete that fails is reported to the hook, once,
\* with 'writeFile' or 'unlink', the path and the error, and to nobody else:
\* a load that scheduled a cache action has called its callback exactly once
\* and its errorback never, and no step of a timer or of a file operation
\* adds a call of a caller callback to any load, also when two loads write
\* or delete the same cache file.
C13_CacheFailureOnlyToHook ==
    /\ [](\A id \in NodeLoadIds :
            nodeLoads[id].timer.state # "none" =>
                /\ At(nodeLoads[id].trace, {"callback"}) = {3}
                /\ At(nodeLoads[id].trace, {"errorback"}) = {}
                /\ nodeLoads[id].timer.state = "done" => CacheActionTail(id))
    /\ [][\A id \in NodeLoadIds :
            nodeLoads[id].timer.state # "none" =>
                CallerCalls(nodeLoads'[id].trace) = CallerCalls(nodeLoads[id].trace)
         ]_vars

\* Two loads of the same file found the cache cold and both wrote the same
\* cache file; one write failed and was reported to the hook, the other one
\* succeeded, and each load called its callback once.
C13_Witness ==
    /\ Len(nodeLoads) = 2
    /\ nodeLoads[1].cachedDataPath = nodeLoads[2].cachedDataPath
    /\ \A id \in {1, 2} :
          /\ nodeLoads[id].timer.op = "writeFile"
          /\ nodeLoads[id].timer.state = "done"
          /\ At(nodeLoads[id].trace, {"callback"}) = {3}
    /\ nodeLoads[1].trace[Len(nodeLoads[1].trace)].code = "writeFile"
    /\ nodeLoads[2].trace[Len(nodeLoads[2].trace)].ev = "writeFile"
    /\ cacheFiles[nodeLoads[1].cachedDataPath].by = 2

\* C14: every load that recorded the begin of an evaluation has, once its
\* handler has run, recorded the matching end after it, and calls its
\* callback only after that end.
C14_EvaluationBracketed ==
    \A id \in NodeLoadIds :
        LET trace == nodeLoads[id].trace
            path  == nodeLoads[id].scriptSrc
        IN  /\ \A i \in At(trace, {"record"}) : trace[i].path = path
            /\ Settled(id) =>
                  \A i \in 1..Len(trace) :
                      trace[i].code = "NodeBeginEvaluatingScript" =>
                          /\ i < Len(trace)
                          /\ trace[i + 1].code = "NodeEndEvaluatingScript"
                          /\ \A j \in At(trace, {"callback"}) : j > i + 1

----------------------------------------------------------------------------
(* Claims on NodeScriptLoader._runSoon                                      *)

\* C9 as stated: the timeout is at least minTimeout and strictly less than
\* twice minTimeout (both sides multiplied by the denominator).
C9_HalfOpenRange ==
    runSoonTimer # NoTimer =>
        /\ runSoonTimer >= runSoonArgs.minTimeout.num
        /\ runSoonTimer < 2 * runSoonArgs.minTimeout.num

\* C9 as amended: the timeout is at least minTimeout and at most
\* minTimeout + ceil(minTimeout), which is twice minTimeout, inclusive, when
\* minTimeout is an integer.
C9_ClosedRange ==
    runSoonTimer # NoTimer =>
        LET m == runSoonArgs.minTimeout
        IN  /\ runSoonTimer >= m.num
            /\ runSoonTimer <= m.num + m.den * Ceil(m.num, m.den)
            /\ m.den = 1 => runSoonTimer <= 2 * m.num

\* An integer minimum above 1 for which the timeout is exactly twice it.
C9_Witness ==
    /\ runSoonTimer # NoTimer
    /\ runSoonArgs.minTimeout.den = 1
    /\ runSoonArgs.minTimeout.num > 1
    /\ runSoonTimer = 2 * runSoonArgs.minTimeout.num

----------------------------------------------------------------------------
(* Claims on the wrapping of the file text                                  *)

\* The text without its leading byte-order mark, if it has one.
Stripped(str) == IF startsWithBOM(str) THEN substring1(str) ELSE str

\* C15: for every text s that does not start with the byte-order mark, the
\* wrapped text built from BOM + s equals the wrapped text built from s, and
\* both are the prefix, then s, then the suffix. The text read is BOM + s or
\* s itself; the wrapping the callback built is compared with the wrapping
\* of the other one.
C15_BomInsensitive ==
    contents # NotWrapped =>
        LET s == Stripped(fileData)
        IN  ~startsWithBOM(s) =>
                /\ contents = WrapPrefix \o s \o WrapSuffix
                /\ wrap(<<BOM>> \o s) = contents
                /\ wrap(s) = contents

\* A text of three characters behind a byte-order mark was wrapped, and the
\* wrapped text holds no byte-order mark.
C15_Witness ==
    /\ contents # NotWrapped
    /\ Len(fileData) = 4
    /\ startsWithBOM(fileData)
    /\ ~startsWithBOM(substring1(fileData))
    /\ \A i \in 1..Len(contents) : contents[i] # BOM
    /\ Len(contents) = Len(WrapPrefix) + 3 + Len(WrapSuffix)

----------------------------------------------------------------------------
(* Claims on scriptLoader with callbacks that raise or load again           *)

\* The load calls made from inside a callback that was being fanned out.
Reentrant == {w \in Waiters : registered[w].during > 0}

HandlerRuns(l) == 1..Len(completed[l])

\* C17: when an underlying load of L has completed, every callback pair that
\* waited on it has been called exactly once, whatever the callbacks before
\* it in the list did, and a completion handler never runs without the
\* pending entry of L nor twice for one underlying load, whichever strategy
\* is wrapped.
C17_WaitersIsolated ==
    \A l \in ScriptLocators :
        /\ \A i \in HandlerRuns(l) : completed[l][i].hadEntry
        /\ \A i, j \in HandlerRuns(l) :
              completed[l][i].of = completed[l][j].of => i = j
        /\ \A i \in HandlerRuns(l) :
              \A w \in Waiters :
                  (registered[w].src = l /\ registered[w].serves = completed[l][i].of)
                      => Cardinality(CallsOf(w)) = 1

----------------------------------------------------------------------------
(* Claims on repeated loads of one file under a cache directory             *)

\* A step in which the delete of load id removes the cache file.
IsUnlinkDone(id) ==
    /\ id \in NodeLoadIds
    /\ nodeLoads[id].timer.op = "unlink"
    /\ nodeLoads[id].timer.state = "io"
    /\ nodeLoads'[id].timer.state = "done"
    /\ cacheFiles[nodeLoads[id].timer.path] # NoFile
    /\ cacheFiles'[nodeLoads[id].timer.path] = NoFile

\* C18: the delete a load scheduled because its blob was rejected removes
\* only that blob: over every interleaving of the loads of a file and of
\* their timers, the file a delete removes is the one the load had read, never
\* a blob that a later cold-cache load has written.
C18_EvictsOnlyRejectedBlob ==
    [][\A id \in 1..MaxCacheLoads :
          IsUnlinkDone(id) =>
              /\ cacheFiles[nodeLoads[id].timer.path] = nodeLoads[id].options.cachedData
              /\ cacheFiles[nodeLoads[id].timer.path].by = 0
      ]_vars

\* The cache actions a load scheduled.
Scheduled(id) == At(nodeLoads[id].trace, {"runSoon"})

\* A load schedules at most one cache action, and a load whose blob was
\* rejected schedules a delete and never a write.
OneCacheAction ==
    \A id \in NodeLoadIds :
        /\ Cardinality(Scheduled(id)) <= 1
        /\ Scheduled(id) = {} <=> nodeLoads[id].timer.state = "none"
        /\ nodeLoads[id].script.cachedDataRejected =>
              /\ nodeLoads[id].timer.op = "unlink"
              /\ \A i \in 1..Len(nodeLoads[id].trace) :
                    nodeLoads[id].trace[i].code # "writeFile"
                        /\ nodeLoads[id].trace[i].ev # "writeFile"

\* The first load read the stale blob, every load was called when the load
\* before it had got as far as `allowed` says, and the handlers of load id
\* have run.
StaleThenInTurn(id, allowed) ==
    /\ Settled(id)
    /\ Settled(1)
    /\ nodeLoads[1].options.cachedData = StaleBlob
    /\ \A j \in 2..Len(nodeLoads) : nodeLoads[j].after \in allowed

\* The load deleted the cache file, if its delete has completed.
Deleted(id) ==
    /\ nodeLoads[id].script.cachedDataRejected
    /\ nodeLoads[id].timer.op = "unlink"
    /\ nodeLoads[id].timer.state = "done" =>
          nodeLoads[id].trace[Len(nodeLoads[id].trace)] =
              Ev("unlink", "", nodeLoads[id].cachedDataPath, NoError)

\* The load found the cache cold and asked for a blob.
Cold(id) ==
    /\ nodeLoads[id].options.cachedData = Undefined
    /\ nodeLoads[id].options.produceCachedData
    /\ ~nodeLoads[id].script.cachedDataRejected

\* The load scheduled the write of the blob it produced.
Writes(id) ==
    /\ nodeLoads[id].timer.op = "writeFile"
    /\ nodeLoads[id].timer.data = [for |-> nodeLoads[id].scriptSrc, by |-> id]

\* C19 as stated: a load schedules at most one cache action and a rejected
\* blob is never replaced by the load that rejected it; starting from a stale
\* cache file, with no I/O failures and each load called after the timer of
\* the load before it has fired, the first load deletes the file, the second
\* finds the cache cold and writes a fresh blob, and every load from the
\* third on is a cache hit that schedules nothing.
C19_AfterTimerFired ==
    /\ OneCacheAction
    /\ \A id \in NodeLoadIds :
          StaleThenInTurn(id, {"none", "io", "done"}) =>
              CASE id = 1 -> Deleted(1)
                [] id = 2 -> Deleted(1) /\ Cold(2) /\ Writes(2)
                [] OTHER  -> CacheHit(id) /\ nodeLoads[id].timer = NoTimerSet

\* C19 as amended: the same, with each load called after the delayed file
\* operation of the load before it has completed (not merely after its timer
\* has fired), the second load writing the blob when the engine produced the
\* one it was asked for, and the later loads being hits on that blob.
C19_DeleteThenWriteThenHit ==
    /\ OneCacheAction
    /\ \A id \in NodeLoadIds :
          StaleThenInTurn(id, {"none", "done"}) =>
              CASE id = 1 -> Deleted(1)
                [] id = 2 -> /\ Deleted(1)
                             /\ Cold(2)
                             /\ IF nodeLoads[2].script.cachedDataProduced
                                THEN Writes(2)
                                ELSE nodeLoads[2].timer = NoTimerSet
                [] OTHER  -> nodeLoads[2].script.cachedDataProduced =>
                                /\ CacheHit(id)
                                /\ nodeLoads[id].timer = NoTimerSet
                                /\ Scheduled(id) = {}
                                /\ nodeLoads[id].options.cachedData =
                                       [for |-> nodeLoads[id].scriptSrc, by |-> 2]

\* Three loads in turn from a stale cache file: the first deleted it, the
\* second wrote a fresh blob, the third read that blob and scheduled nothing,
\* and the file still holds it.
C19_Witness ==
    /\ Len(nodeLoads) = 3
    /\ StaleThenInTurn(3, {"done"})
    /\ nodeLoads[1].timer.op = "unlink" /\ nodeLoads[1].timer.state = "done"
    /\ nodeLoads[2].timer.op = "writeFile" /\ nodeLoads[2].timer.state = "done"
    /\ CacheHit(3)
    /\ nodeLoads[3].timer = NoTimerSet
    /\ cacheFiles[nodeLoads[3].cachedDataPath] = [for |-> ModuleJs, by |-> 2]

====
